---- MODULE Spec2Model ----
(***************************************************************************)
(* Weather-station measurement aggregation.                                *)
(*                                                                         *)
(* Two programs of the repository are modelled:                            *)
(*   - pws_publisher: the MQTT handler (weatherPubHandler) turns a         *)
(*     measurement into an RTL433Message, keeping the rain baseline        *)
(*     App.LastRainFall; main merges the messages into `data` and, on a    *)
(*     60 s timer, submits `data` unless its timestamp is older than       *)
(*     5 minutes.                          (specification Spec)            *)
(*   - prometheus_proxy / metrics-server: App.currentConditions guarded    *)
(*     by the mutex App.M, written by SetTempHumidityConditions and        *)
(*     SetWindRainConditions, read by GetCurrentConditions.                *)
(*                                         (specification SpecProxy)       *)
(*                                                                         *)
(* Units.  Wall-clock time is counted in minutes since local midnight of   *)
(* day 0.  Measurement inputs are in thousandths of their unit, except     *)
(* WindSpeed which is in whole km/h; the "%0.2f" strings of the publisher  *)
(* are numbers of hundredths.                                              *)
(***************************************************************************)
EXTENDS Integers, Sequences, FiniteSets, TLC

\* ------------------------------------------------------------------ bounds
MaxElapsed == 4

\* --------------------------------------------------------------- constants
MinutesPerHour == 60
HoursPerDay == 24
SecondsPerMinute == 60
TimerSeconds == 60
MaxAgeMinutes == 5
TEMP_HUMIDITY_MESSAGE == 56
WIND_RAIN_MESSAGE == 49
InvalidBaseline == 0 - 1000

TimerInterval == TimerSeconds \div SecondsPerMinute

\* time.Time.Hour / time.Time.Minute of a wall-clock instant
Hour(t) == (t \div MinutesPerHour) % HoursPerDay
Minute(t) == t % MinutesPerHour

StartTimes == {HoursPerDay * MinutesPerHour - 1}

\* difference between the handling instant and the timestamp in the payload
Lags == {0, 3}

\* --------------------------------------------------------------- inputs
TempHumidityMeasurements ==
    { [MessageType |-> TEMP_HUMIDITY_MESSAGE, Temp |-> 69100, Humidity |-> 97000, Battery |-> 1],
      [MessageType |-> TEMP_HUMIDITY_MESSAGE, Temp |-> 70255, Humidity |-> 50004, Battery |-> 0] }

WindRainMeasurements ==
    { [MessageType |-> WIND_RAIN_MESSAGE, WindSpeed |-> 0, WindDirection |-> 157500,
       RainInches |-> 5000, Battery |-> 1],
      [MessageType |-> WIND_RAIN_MESSAGE, WindSpeed |-> 10, WindDirection |-> 22500,
       RainInches |-> 5300, Battery |-> 0] }

\* ------------------------------------------------------------ formatting
\* fmt.Sprintf("%0.2f", x) for x in thousandths: the nearest hundredth
Fmt2(x) == IF x >= 0 THEN (x + 5) \div 10 ELSE 0 - ((5 - x) \div 10)

\* fmt.Sprintf("%0.2f", w*0.62137119) for w in whole km/h
Fmt2Mph(w) == (w * 62137119 + 500000) \div 1000000

\* variant: the map starts with a zero entry per parameter
ZeroData ==
    [k \in {"tempf", "humidity", "windspeedmph", "wind_dir", "dailyrainin"} |-> 0]

\* make(map[string]string)
EmptyMap == [k \in {} |-> 0]
NoMessage == [Timestamp |-> {}, Data |-> EmptyMap]

\* a *time.Time is the empty set (nil) or a singleton
Deref(p) == CHOOSE t \in p : TRUE

VARIABLES
    now,            \* wall clock, minutes
    LastRainFall,   \* App.LastRainFall of pws_publisher, thousandths of an inch
    hpc,            \* weatherPubHandler: "idle" or "send" (blocked in c <- msg)
    hmsg,           \* the RTL433Message the handler is sending
    data,           \* main's data: [Timestamp, Data]
    timer,          \* main's timer channel: {} once drained, {t} delivers at t
    sched,          \* main: "select", "submit", "stopped" or "panic"
    d,              \* main's d while submitMeasurement runs, {} outside the case body
    sig,            \* sigChan holds a signal
    logged,         \* what the loop logged last: "none", "stale", "err", "resp"
    lastTH,         \* history: Data of the last temp/humidity message merged
    lastWR,         \* history: Data of the last wind/rain message merged
    lastMsg,        \* history: Timestamp of the last message merged
    older,          \* history: the last message merged was older than the one before
    midnightRain,   \* history: RainInches of the last message handled at 00:00, or {}
    wrToday,        \* history: a wind/rain message was handled since the last local midnight
    lastReading,    \* history: RainInches of the last wind/rain message handled, or {}
    nondecr,        \* history: no reading since the baseline was taken was below its predecessor
    M,              \* prometheus_proxy App.M: the holder of the mutex, or Unlocked
    currentConditions, \* prometheus_proxy App.currentConditions
    wpc,            \* MQTT handler of the proxy: position in Set...Conditions
    measurement,    \* the measurement the handler is applying
    rpc,            \* per HTTP request: position in GetCurrentConditions
    snap,           \* per HTTP request: the copy m taken by GetCurrentConditions
    committed,      \* history: currentConditions at the last Unlock of a setter
    writtenBy,      \* history: per message type, the fields its setter has changed
    hlog,           \* pws_publisher handler: why it dropped the last message, or "none"
    wlog            \* proxy handler: why it dropped the last message, or "none"

publisherVars == <<now, LastRainFall, hpc, hmsg, data, timer, sched, d, sig, logged,
                   lastTH, lastWR, lastMsg, older, midnightRain,
                   wrToday, lastReading, nondecr, hlog>>

proxyVars == <<M, currentConditions, wpc, measurement, rpc, snap, committed, writtenBy,
               wlog>>

vars == <<publisherVars, proxyVars>>

\* ------------------------------------------------------ pws_publisher: App
\* t.Hour() == 0 && t.Minute() == 0
IsMidnightMinute(t) == Hour(t) = 0 /\ Minute(t) = 0

\* variant: the baseline is taken from every message
NextLastRainFallAlways(last, m, t) == m.RainInches

\* variant: the 00:00 reset is missing
NextLastRainFallNoReset(last, m, t) == IF last < 0 THEN m.RainInches ELSE last

\* a.LastRainFall after the two ifs of handleWindRainMeasurement
NextLastRainFall(last, m, t) ==
    LET reset == IF IsMidnightMinute(t) THEN InvalidBaseline ELSE last
    IN  IF reset < 0 THEN m.RainInches ELSE reset

\* variant: the subtraction is the wrong way round
handleWindRainMeasurementSwapped(last, m, t) ==
    [windspeedmph |-> Fmt2Mph(m.WindSpeed),
     wind_dir     |-> Fmt2(m.WindDirection),
     dailyrainin  |-> Fmt2(NextLastRainFall(last, m, t) - m.RainInches)]

handleWindRainMeasurement(last, m, t) ==
    [windspeedmph |-> Fmt2Mph(m.WindSpeed),
     wind_dir     |-> Fmt2(m.WindDirection),
     dailyrainin  |-> Fmt2(m.RainInches - NextLastRainFall(last, m, t))]

handleTempHumidityMeasurement(m) ==
    [tempf    |-> Fmt2(m.Temp),
     humidity |-> Fmt2(m.Humidity)]

NewApp == InvalidBaseline

Alive == sched \in {"select", "submit"}

\* weatherPubHandler up to the channel send, wind/rain message
HandleWindRain(m, lag) ==
    /\ Alive
    /\ hpc = "idle"
    /\ LastRainFall' = NextLastRainFall(LastRainFall, m, now)
    /\ hmsg' = [Timestamp |-> {now - lag},
                Data |-> handleWindRainMeasurement(LastRainFall, m, now)]
    /\ hpc' = "send"
    /\ UNCHANGED <<now, data, timer, sched, d, sig, logged, lastTH, lastWR, lastMsg>>
    /\ midnightRain' = IF Hour(now) = 0 /\ Minute(now) = 0
                       THEN {m.RainInches} ELSE midnightRain
    /\ wrToday' = TRUE
    /\ lastReading' = {m.RainInches}
    /\ nondecr' = IF LastRainFall < 0 \/ (Hour(now) = 0 /\ Minute(now) = 0)
                  THEN TRUE
                  ELSE nondecr /\ m.RainInches >= Deref(lastReading)
    /\ UNCHANGED older
    /\ hlog' = "none"
    /\ UNCHANGED proxyVars

\* weatherPubHandler up to the channel send, temp/humidity message
HandleTempHumidity(m, lag) ==
    /\ Alive
    /\ hpc = "idle"
    /\ hmsg' = [Timestamp |-> {now - lag},
                Data |-> handleTempHumidityMeasurement(m)]
    /\ hpc' = "send"
    /\ UNCHANGED <<now, LastRainFall, data, timer, sched, d, sig, logged,
                   lastTH, lastWR, lastMsg>>
    /\ UNCHANGED <<older, midnightRain, wrToday, lastReading, nondecr>>
    /\ hlog' = "none"
    /\ UNCHANGED proxyVars

\* ------------------------------------------------------ pws_publisher: main
\* variant: the message replaces the map
MergeDataReplace(old, new) == new

\* for key := range msg.Data { data.Data[key] = msg.Data[key] }
MergeData(old, new) ==
    [k \in DOMAIN old \cup DOMAIN new |-> IF k \in DOMAIN new THEN new[k] ELSE old[k]]

\* variant: the comparison is inverted
IsStaleInverted(age) == age < MaxAgeMinutes

\* variant: the limit itself counts as stale
IsStaleAtLimit(age) == age >= MaxAgeMinutes

\* d.Minutes() > 5
IsStale(age) == age > MaxAgeMinutes

\* variant: `break` leaves only the select, the loop goes on receiving
ReceiveAfterBreak ==
    /\ sched \in {"select", "stopped"}
    /\ hpc = "send"
    /\ data' = [Timestamp |-> hmsg.Timestamp, Data |-> MergeData(data.Data, hmsg.Data)]
    /\ hpc' = "idle"
    /\ hmsg' = NoMessage
    /\ lastMsg' = hmsg.Timestamp
    /\ IF "tempf" \in DOMAIN hmsg.Data
       THEN lastTH' = hmsg.Data /\ UNCHANGED lastWR
       ELSE lastWR' = hmsg.Data /\ UNCHANGED lastTH
    /\ UNCHANGED <<now, LastRainFall, timer, sched, d, sig, logged>>
    /\ older' = (data.Timestamp # {} /\ Deref(hmsg.Timestamp) < Deref(data.Timestamp))
    /\ UNCHANGED <<midnightRain, wrToday, lastReading, nondecr>>
    /\ UNCHANGED hlog
    /\ UNCHANGED proxyVars

\* case msg := <-c
Receive ==
    /\ sched = "select"
    /\ hpc = "send"
    /\ data' = [Timestamp |-> hmsg.Timestamp, Data |-> MergeData(data.Data, hmsg.Data)]
    /\ hpc' = "idle"
    /\ hmsg' = NoMessage
    /\ lastMsg' = hmsg.Timestamp
    /\ IF "tempf" \in DOMAIN hmsg.Data
       THEN lastTH' = hmsg.Data /\ UNCHANGED lastWR
       ELSE lastWR' = hmsg.Data /\ UNCHANGED lastTH
    /\ UNCHANGED <<now, LastRainFall, timer, sched, d, sig, logged>>
    /\ older' = (data.Timestamp # {} /\ Deref(hmsg.Timestamp) < Deref(data.Timestamp))
    /\ UNCHANGED <<midnightRain, wrToday, lastReading, nondecr>>
    /\ UNCHANGED hlog
    /\ UNCHANGED proxyVars

TimerReady == timer # {} /\ now >= Deref(timer)

\* case <-timer with data.Timestamp == nil: time.Since(*data.Timestamp) panics
TimerTickNil ==
    /\ sched = "select"
    /\ TimerReady
    /\ data.Timestamp = {}
    /\ timer' = {}
    /\ sched' = "panic"
    /\ UNCHANGED <<now, LastRainFall, hpc, hmsg, data, d, sig, logged, lastTH, lastWR, lastMsg>>
    /\ UNCHANGED <<older, midnightRain, wrToday, lastReading, nondecr>>
    /\ UNCHANGED hlog
    /\ UNCHANGED proxyVars

\* variant: stale data is thrown away
TimerTickStaleClears ==
    /\ sched = "select"
    /\ timer # {} /\ now >= Deref(timer)
    /\ data.Timestamp # {}
    /\ IsStale(now - Deref(data.Timestamp))
    /\ timer' = {}
    /\ logged' = "stale"
    /\ data' = [Timestamp |-> data.Timestamp, Data |-> EmptyMap]
    /\ UNCHANGED <<now, LastRainFall, hpc, hmsg, sched, d, sig, lastTH, lastWR, lastMsg>>
    /\ UNCHANGED <<older, midnightRain, wrToday, lastReading, nondecr>>
    /\ UNCHANGED hlog
    /\ UNCHANGED proxyVars

\* case <-timer, d.Minutes() > 5: log and continue outerloop
TimerTickStale ==
    /\ sched = "select"
    /\ TimerReady
    /\ data.Timestamp # {}
    /\ IsStale(now - Deref(data.Timestamp))
    /\ timer' = {}
    /\ logged' = "stale"
    /\ UNCHANGED <<now, LastRainFall, hpc, hmsg, data, sched, d, sig, lastTH, lastWR, lastMsg>>
    /\ UNCHANGED <<older, midnightRain, wrToday, lastReading, nondecr>>
    /\ UNCHANGED hlog
    /\ UNCHANGED proxyVars

\* variant: the timer is armed again before submitMeasurement is called
TimerTickSubmitRearmsFirst ==
    /\ sched = "select"
    /\ timer # {} /\ now >= Deref(timer)
    /\ data.Timestamp # {}
    /\ ~IsStale(now - Deref(data.Timestamp))
    /\ d' = {now - Deref(data.Timestamp)}
    /\ timer' = {now + TimerInterval}
    /\ sched' = "submit"
    /\ UNCHANGED <<now, LastRainFall, hpc, hmsg, data, sig, logged, lastTH, lastWR, lastMsg>>
    /\ UNCHANGED <<older, midnightRain, wrToday, lastReading, nondecr>>
    /\ UNCHANGED hlog
    /\ UNCHANGED proxyVars

\* case <-timer, fresh: submitMeasurement is called
TimerTickSubmit ==
    /\ sched = "select"
    /\ TimerReady
    /\ data.Timestamp # {}
    /\ ~IsStale(now - Deref(data.Timestamp))
    /\ d' = {now - Deref(data.Timestamp)}
    /\ timer' = {}
    /\ sched' = "submit"
    /\ UNCHANGED <<now, LastRainFall, hpc, hmsg, data, sig, logged, lastTH, lastWR, lastMsg>>
    /\ UNCHANGED <<older, midnightRain, wrToday, lastReading, nondecr>>
    /\ UNCHANGED hlog
    /\ UNCHANGED proxyVars

\* variant: a failed submit is tried again at once
SubmitErrorRetries ==
    /\ sched = "submit"
    /\ logged # "err"
    /\ logged' = "err"
    /\ UNCHANGED <<now, LastRainFall, hpc, hmsg, data, timer, sched, d, sig,
                   lastTH, lastWR, lastMsg>>
    /\ UNCHANGED <<older, midnightRain, wrToday, lastReading, nondecr>>
    /\ UNCHANGED hlog
    /\ UNCHANGED proxyVars

\* submitMeasurement returned err != nil: log and continue outerloop
SubmitError ==
    /\ sched = "submit"
    /\ sched' = "select"
    /\ logged' = "err"
    /\ d' = {}
    /\ UNCHANGED <<now, LastRainFall, hpc, hmsg, data, timer, sig, lastTH, lastWR, lastMsg>>
    /\ UNCHANGED <<older, midnightRain, wrToday, lastReading, nondecr>>
    /\ UNCHANGED hlog
    /\ UNCHANGED proxyVars

\* submitMeasurement returned a response: log it, timer = time.After(60 s)
SubmitResponse ==
    /\ sched = "submit"
    /\ sched' = "select"
    /\ logged' = "resp"
    /\ timer' = {now + TimerInterval}
    /\ d' = {}
    /\ UNCHANGED <<now, LastRainFall, hpc, hmsg, data, sig, lastTH, lastWR, lastMsg>>
    /\ UNCHANGED <<older, midnightRain, wrToday, lastReading, nondecr>>
    /\ UNCHANGED hlog
    /\ UNCHANGED proxyVars

\* the process receives SIGINT / SIGTERM
Signal ==
    /\ Alive
    /\ ~sig
    /\ sig' = TRUE
    /\ UNCHANGED <<now, LastRainFall, hpc, hmsg, data, timer, sched, d, logged,
                   lastTH, lastWR, lastMsg>>
    /\ UNCHANGED <<older, midnightRain, wrToday, lastReading, nondecr>>
    /\ UNCHANGED hlog
    /\ UNCHANGED proxyVars

\* variant: the signal is consumed but the loop goes on
CancelKeepsRunning ==
    /\ sched = "select"
    /\ sig
    /\ sig' = FALSE
    /\ UNCHANGED <<now, LastRainFall, hpc, hmsg, data, timer, sched, d, logged,
                   lastTH, lastWR, lastMsg>>
    /\ UNCHANGED <<older, midnightRain, wrToday, lastReading, nondecr>>
    /\ UNCHANGED hlog
    /\ UNCHANGED proxyVars

\* case <-sigChan: break outerloop
Cancel ==
    /\ sched = "select"
    /\ sig
    /\ sig' = FALSE
    /\ sched' = "stopped"
    /\ UNCHANGED <<now, LastRainFall, hpc, hmsg, data, timer, d, logged,
                   lastTH, lastWR, lastMsg>>
    /\ UNCHANGED <<older, midnightRain, wrToday, lastReading, nondecr>>
    /\ UNCHANGED hlog
    /\ UNCHANGED proxyVars

\* one minute passes
Advance ==
    /\ Alive
    /\ \E s \in StartTimes : now < s + MaxElapsed
    /\ now' = now + 1
    /\ UNCHANGED <<LastRainFall, hpc, hmsg, data, timer, sched, d, sig, logged,
                   lastTH, lastWR, lastMsg>>
    /\ UNCHANGED <<older, midnightRain, lastReading, nondecr>>
    /\ wrToday' = IF Hour(now + 1) = 0 /\ Minute(now + 1) = 0 THEN FALSE ELSE wrToday
    /\ UNCHANGED hlog
    /\ UNCHANGED proxyVars


\* ------------------------------------------- prometheus_proxy / metrics-server
Unlocked == "unlocked"
Writer == "mqtt"
Readers == {"http"}

\* the "time" strings of the payloads
Timestamps == {"2025-08-03 21:51:44", "2025-08-03 21:52:39"}

ZeroConditions ==
    [Timestamp |-> "", Temp |-> 0, Humidity |-> 0, Battery |-> 0,
     WindSpeed |-> 0, WindDirection |-> 0, RainInches |-> 0]

NoMeasurement == [MessageType |-> 0]

\* the assignments of SetTempHumidityConditions, in order
TempHumidityFields == <<"Timestamp", "Temp", "Humidity", "Battery">>

\* the assignments of SetWindRainConditions, in order
WindRainFields == <<"Timestamp", "Battery", "WindDirection", "WindSpeed", "RainInches">>

FieldsOf(m) ==
    IF m.MessageType = TEMP_HUMIDITY_MESSAGE THEN TempHumidityFields ELSE WindRainFields

\* variant: the record is rebuilt from the measurement alone
StoreFieldReset(cc, f, m) == [ZeroConditions EXCEPT ![f] = m[f]]

\* app.currentConditions.f = measurement.f
StoreField(cc, f, m) == [cc EXCEPT ![f] = m[f]]

\* variant: no mutual exclusion
CanLockAlways(holder) == TRUE

\* sync.Mutex.Lock returns only when the mutex is free
CanLock(holder) == holder = Unlocked

\* weatherPubHandler decoded a message and calls the setter for its type
SetConditionsCall(m, ts) ==
    /\ wpc = 0
    /\ measurement' = [Timestamp |-> ts] @@ m
    /\ wpc' = 1
    /\ UNCHANGED <<M, currentConditions, rpc, snap, committed, writtenBy>>
    /\ wlog' = "none"
    /\ UNCHANGED publisherVars

\* app.M.Lock() in a setter
SetConditionsLock ==
    /\ wpc = 1
    /\ CanLock(M)
    /\ M' = Writer
    /\ wpc' = 2
    /\ UNCHANGED <<currentConditions, measurement, rpc, snap, committed, writtenBy>>
    /\ UNCHANGED wlog
    /\ UNCHANGED publisherVars

\* one field assignment of a setter
SetConditionsStore ==
    /\ wpc >= 2
    /\ wpc <= Len(FieldsOf(measurement)) + 1
    /\ currentConditions' =
           StoreField(currentConditions, FieldsOf(measurement)[wpc - 1], measurement)
    /\ wpc' = wpc + 1
    /\ UNCHANGED <<M, measurement, rpc, snap, committed>>
    /\ writtenBy' = [writtenBy EXCEPT ![measurement.MessageType] =
                        @ \cup {f \in DOMAIN currentConditions :
                                   currentConditions'[f] # currentConditions[f]}]
    /\ UNCHANGED wlog
    /\ UNCHANGED publisherVars

\* app.M.Unlock() in a setter, and return
SetConditionsUnlock ==
    /\ wpc = Len(FieldsOf(measurement)) + 2
    /\ M' = Unlocked
    /\ wpc' = 0
    /\ measurement' = NoMeasurement
    /\ committed' = currentConditions
    /\ UNCHANGED <<currentConditions, rpc, snap, writtenBy>>
    /\ UNCHANGED wlog
    /\ UNCHANGED publisherVars

\* MetricsHandler calls GetCurrentConditions
GetCall(r) ==
    /\ rpc[r] = "idle"
    /\ rpc' = [rpc EXCEPT ![r] = "lock"]
    /\ UNCHANGED <<M, currentConditions, wpc, measurement, snap, committed, writtenBy>>
    /\ UNCHANGED wlog
    /\ UNCHANGED publisherVars

\* app.M.Lock() in GetCurrentConditions
GetLock(r) ==
    /\ rpc[r] = "lock"
    /\ CanLock(M)
    /\ M' = r
    /\ rpc' = [rpc EXCEPT ![r] = "copy"]
    /\ UNCHANGED <<currentConditions, wpc, measurement, snap, committed, writtenBy>>
    /\ UNCHANGED wlog
    /\ UNCHANGED publisherVars

\* m := app.currentConditions
GetCopy(r) ==
    /\ rpc[r] = "copy"
    /\ snap' = [snap EXCEPT ![r] = currentConditions]
    /\ rpc' = [rpc EXCEPT ![r] = "unlock"]
    /\ UNCHANGED <<M, currentConditions, wpc, measurement, committed, writtenBy>>
    /\ UNCHANGED wlog
    /\ UNCHANGED publisherVars

\* app.M.Unlock() in GetCurrentConditions
GetUnlock(r) ==
    /\ rpc[r] = "unlock"
    /\ M' = Unlocked
    /\ rpc' = [rpc EXCEPT ![r] = "return"]
    /\ UNCHANGED <<currentConditions, wpc, measurement, snap, committed, writtenBy>>
    /\ UNCHANGED wlog
    /\ UNCHANGED publisherVars

\* return m; MetricsHandler writes it out
GetReturn(r) ==
    /\ rpc[r] = "return"
    /\ rpc' = [rpc EXCEPT ![r] = "idle"]
    /\ snap' = [snap EXCEPT ![r] = ZeroConditions]
    /\ UNCHANGED <<M, currentConditions, wpc, measurement, committed, writtenBy>>
    /\ UNCHANGED wlog
    /\ UNCHANGED publisherVars

\* ------------------------------------------------- the handlers, from the payload
\* what json.Unmarshal makes of the payload: "ok", "syntax" for a payload
\* that is not JSON, or the name of a field that holds a string where the
\* struct has a number
JsonKinds == {"ok", "syntax", "wind_dir_deg", "temperature_F"}

\* a "time" string that is not in the layout "2006-01-02 15:04:05"
BadTimestamps == {"2025-08-03T21:51:44"}

\* a message type of the sensor that is neither of the two constants
OtherMeasurements == { [MessageType |-> 0, Battery |-> 1] }

\* msg.Payload(): the JSON kind, the "time" string, the distance of the
\* instant it names from the handling instant, and the remaining fields
Payloads ==
    { [json |-> j, time |-> ts, lag |-> lag, message_type |-> body.MessageType, body |-> body] :
        j \in JsonKinds, ts \in Timestamps \cup BadTimestamps, lag \in Lags,
        body \in TempHumidityMeasurements \cup WindRainMeasurements \cup OtherMeasurements }

\* json.Unmarshal(msg.Payload(), &windRainMeasurement) returns an error
UnmarshalWindRainFails(p) == p.json \in {"syntax", "wind_dir_deg"}

\* json.Unmarshal(msg.Payload(), &tempHumidityMeasurement) returns an error
UnmarshalTempHumidityFails(p) == p.json \in {"syntax", "temperature_F"}

\* time.ParseInLocation("2006-01-02 15:04:05", timestamp, a.TZ) returns an error
parseMessageTimeFails(ts) == ts \notin Timestamps

\* variant: the timestamp is not looked at
PublisherOutcomeNoTimeCheck(p) ==
    IF UnmarshalWindRainFails(p) THEN "decode"
    ELSE IF p.message_type = WIND_RAIN_MESSAGE THEN "windrain"
    ELSE IF UnmarshalTempHumidityFails(p) THEN "decode"
    ELSE IF p.message_type = TEMP_HUMIDITY_MESSAGE THEN "temphumidity"
    ELSE "type"

\* the branch App.weatherPubHandler of pws_publisher takes for a payload
PublisherOutcome(p) ==
    IF UnmarshalWindRainFails(p) THEN "decode"
    ELSE IF parseMessageTimeFails(p.time) THEN "timestamp"
    ELSE IF p.message_type = WIND_RAIN_MESSAGE THEN "windrain"
    ELSE IF UnmarshalTempHumidityFails(p) THEN "decode"
    ELSE IF p.message_type = TEMP_HUMIDITY_MESSAGE THEN "temphumidity"
    ELSE "type"

\* the branch weatherPubHandler of the proxy takes for a payload
ProxyOutcome(p) ==
    IF UnmarshalWindRainFails(p) THEN "decode"
    ELSE IF p.message_type = WIND_RAIN_MESSAGE THEN "windrain"
    ELSE IF UnmarshalTempHumidityFails(p) THEN "decode"
    ELSE IF p.message_type = TEMP_HUMIDITY_MESSAGE THEN "temphumidity"
    ELSE "type"

\* App.weatherPubHandler of pws_publisher, from the payload to the channel
\* send or to the return after a log line
PublisherHandle(p) ==
    LET o == PublisherOutcome(p)
    IN  CASE o = "windrain" -> HandleWindRain(p.body, p.lag)
          [] o = "temphumidity" -> HandleTempHumidity(p.body, p.lag)
          [] OTHER ->
                /\ Alive
                /\ hpc = "idle"
                /\ hlog' = o
                /\ UNCHANGED <<now, LastRainFall, hpc, hmsg, data, timer, sched, d, sig,
                               logged, lastTH, lastWR, lastMsg>>
                /\ UNCHANGED <<older, midnightRain, wrToday, lastReading, nondecr>>
                /\ UNCHANGED proxyVars

\* weatherPubHandler of the proxy, from the payload to the call of a setter
\* or to the return after a log line
ProxyHandle(p) ==
    LET o == ProxyOutcome(p)
    IN  CASE o \in {"windrain", "temphumidity"} -> SetConditionsCall(p.body, p.time)
          [] OTHER ->
                /\ wpc = 0
                /\ wlog' = o
                /\ UNCHANGED <<M, currentConditions, wpc, measurement, rpc, snap,
                               committed, writtenBy>>
                /\ UNCHANGED publisherVars

Init ==
    /\ now \in StartTimes
    /\ LastRainFall = NewApp
    /\ hpc = "idle"
    /\ hmsg = NoMessage
    /\ data = [Timestamp |-> {}, Data |-> EmptyMap]
    /\ timer = {now + TimerInterval}
    /\ sched = "select"
    /\ d = {}
    /\ sig = FALSE
    /\ logged = "none"
    /\ lastTH = EmptyMap
    /\ lastWR = EmptyMap
    /\ lastMsg = {}
    /\ older = FALSE
    /\ midnightRain = {}
    /\ wrToday = FALSE
    /\ lastReading = {}
    /\ nondecr = TRUE
    /\ M = Unlocked
    /\ currentConditions = ZeroConditions
    /\ wpc = 0
    /\ measurement = NoMeasurement
    /\ rpc = [r \in Readers |-> "idle"]
    /\ snap = [r \in Readers |-> ZeroConditions]
    /\ committed = ZeroConditions
    /\ writtenBy = [t \in {TEMP_HUMIDITY_MESSAGE, WIND_RAIN_MESSAGE} |-> {}]
    /\ hlog = "none"
    /\ wlog = "none"

Next ==
    \/ \E m \in WindRainMeasurements, lag \in Lags : HandleWindRain(m, lag)
    \/ \E m \in TempHumidityMeasurements, lag \in Lags : HandleTempHumidity(m, lag)
    \/ Receive
    \/ TimerTickNil
    \/ TimerTickStale
    \/ TimerTickSubmit
    \/ SubmitError
    \/ SubmitResponse
    \/ Signal
    \/ Cancel
    \/ Advance

Spec == Init /\ [][Next]_vars

\* every call of submitMeasurement returns; a select that is ready again and
\* again for the signal case takes it
SpecFair ==
    /\ Init /\ [][Next]_vars
    /\ WF_vars(SubmitError \/ SubmitResponse)
    /\ SF_vars(Cancel)

\* SpecFair, and a select that is ready again and again for the channel
\* receive takes it
SpecFairSelect ==
    /\ Init /\ [][Next]_vars
    /\ WF_vars(SubmitError \/ SubmitResponse)
    /\ SF_vars(Cancel)
    /\ SF_vars(Receive)

NextProxy ==
    \/ \E m \in TempHumidityMeasurements \cup WindRainMeasurements, ts \in Timestamps :
           SetConditionsCall(m, ts)
    \/ SetConditionsLock
    \/ SetConditionsStore
    \/ SetConditionsUnlock
    \/ \E r \in Readers : GetCall(r)
    \/ \E r \in Readers : GetLock(r)
    \/ \E r \in Readers : GetCopy(r)
    \/ \E r \in Readers : GetUnlock(r)
    \/ \E r \in Readers : GetReturn(r)

SpecProxy == Init /\ [][NextProxy]_vars

\* pws_publisher has not run: its state is the one main starts the loop with
PublisherAtStart ==
    /\ hpc = "idle"
    /\ data = NoMessage
    /\ LastRainFall = NewApp
    /\ now \in StartTimes
    /\ hlog = "none"

\* the proxy has not run: its state is the one NewApp returns
ProxyAtStart ==
    /\ wpc = 0
    /\ currentConditions = ZeroConditions
    /\ wlog = "none"

\* Either program, taking its messages as payloads.  The two programs are
\* separate processes that share no state: a behaviour runs one of them.
\* Of main's select only the channel receive is taken.
NextHandlers ==
    \/ ProxyAtStart /\ \E p \in Payloads : PublisherHandle(p)
    \/ ProxyAtStart /\ Receive
    \/ ProxyAtStart /\ Advance
    \/ PublisherAtStart /\ \E p \in Payloads : ProxyHandle(p)
    \/ PublisherAtStart /\ SetConditionsLock
    \/ PublisherAtStart /\ SetConditionsStore
    \/ PublisherAtStart /\ SetConditionsUnlock

SpecHandlers == Init /\ [][NextHandlers]_vars

\* ======================================================================
\* Properties
\* ======================================================================
Running == sched \in {"select", "submit"}

\* a step of main that takes the timer case
TimerTick == sched = "select" /\ TimerReady /\ timer' = {}

\* C1: a timer tick at which data.Timestamp is more than 5 minutes old does
\* not call submitMeasurement, and every call of submitMeasurement is made
\* with a timestamp at most 5 minutes old at its tick.
C1_StaleNeverSubmitted ==
    [][ /\ (TimerTick /\ data.Timestamp # {}
              /\ now - Deref(data.Timestamp) > MaxAgeMinutes) => sched' # "submit"
        /\ (sched # "submit" /\ sched' = "submit") =>
              /\ data.Timestamp # {}
              /\ now - Deref(data.Timestamp) <= MaxAgeMinutes
              /\ d' = {now - Deref(data.Timestamp)} ]_vars

\* a stale tick was skipped: logged, nothing submitted
C1_Witness ==
    /\ logged = "stale"
    /\ sched = "select"
    /\ timer = {}
    /\ now - Deref(data.Timestamp) > MaxAgeMinutes

\* C2: after a tick skipped as stale the timer is armed again, so that a
\* later tick can publish.
C2_RearmedAfterStaleSkip ==
    (sched = "select" /\ logged = "stale") => timer # {}

\* C3: after a tick whose submitMeasurement failed the timer is armed again.
C3_RearmedAfterSinkError ==
    (sched = "select" /\ logged = "err") => timer # {}

\* C4: a tick taken before any message was merged is a stale skip: nothing
\* is submitted and main keeps running.
C4_TickWithoutTimestampSkips ==
    [][ (TimerTick /\ data.Timestamp = {}) =>
            (sched' = "select" /\ logged' = "stale") ]_vars

\* C5: main leaves the loop only through the signal case.
C5_OnlySignalStops ==
    [][ (Running /\ ~Running') => (sig /\ sched = "select" /\ sched' = "stopped") ]_vars

\* C6: data holds, per key, the value of the last merged message that has
\* the key, and the timestamp of the last merged message, older or not.
C6_LastWriteWins ==
    /\ data.Timestamp = lastMsg
    /\ DOMAIN data.Data = DOMAIN lastTH \cup DOMAIN lastWR
    /\ \A k \in DOMAIN lastTH : data.Data[k] = lastTH[k]
    /\ \A k \in DOMAIN lastWR : data.Data[k] = lastWR[k]

\* both kinds were merged, the last message being older than the one before
C6_Witness ==
    /\ older
    /\ lastTH # EmptyMap
    /\ lastWR # EmptyMap
    /\ data.Data.tempf = Fmt2(70255)
    /\ data.Data.dailyrainin = 30

\* C7: while a temp/humidity measurement is applied the wind and rain fields
\* keep the values they had before; while a wind/rain measurement is
\* applied the temperature and humidity keep theirs.
C7_OtherVariantUntouched ==
    wpc >= 2 =>
        IF measurement.MessageType = TEMP_HUMIDITY_MESSAGE
        THEN /\ currentConditions.WindSpeed = committed.WindSpeed
             /\ currentConditions.WindDirection = committed.WindDirection
             /\ currentConditions.RainInches = committed.RainInches
        ELSE /\ currentConditions.Temp = committed.Temp
             /\ currentConditions.Humidity = committed.Humidity

\* a temp/humidity measurement has been stored over non-zero wind and rain
C7_Witness ==
    /\ wpc = Len(TempHumidityFields) + 2
    /\ measurement.MessageType = TEMP_HUMIDITY_MESSAGE
    /\ currentConditions.Temp # committed.Temp
    /\ currentConditions.RainInches = 5300
    /\ currentConditions.WindSpeed = 10

\* C8: the copy taken by GetCurrentConditions is the record as the last
\* completed setter left it, never a record with part of an update.
C8_SnapshotAtomic ==
    \A r \in Readers : rpc[r] = "unlock" => snap[r] = committed

\* a copy was taken while a setter waits for the mutex
C8_Witness ==
    \E r \in Readers :
        /\ rpc[r] = "unlock"
        /\ wpc = 1
        /\ snap[r].Temp # 0
        /\ snap[r].RainInches # 0

\* C9: a wind/rain message handled outside the 00:00 minute sets an invalid
\* baseline to its RainInches and reports 0; with a valid baseline it
\* leaves the baseline alone and reports RainInches minus the baseline.
C9_DeltaOutsideMidnight ==
    [][ \A m \in WindRainMeasurements, lag \in Lags :
          (HandleWindRain(m, lag) /\ ~(Hour(now) = 0 /\ Minute(now) = 0)) =>
             IF LastRainFall < 0
             THEN /\ LastRainFall' = m.RainInches
                  /\ hmsg'.Data.dailyrainin = 0
             ELSE /\ LastRainFall' = LastRainFall
                  /\ hmsg'.Data.dailyrainin = Fmt2(m.RainInches - LastRainFall) ]_vars

\* 5.30 was just handled outside 00:00 against the baseline 5.00
C9_Witness ==
    /\ hpc = "send"
    /\ hmsg.Timestamp = {now}
    /\ ~(Hour(now) = 0 /\ Minute(now) = 0)
    /\ LastRainFall = 5000
    /\ "dailyrainin" \in DOMAIN hmsg.Data
    /\ hmsg.Data.dailyrainin = 30

\* C10: every wind/rain message handled in the 00:00 minute becomes the
\* baseline and reports 0; a message handled later reports RainInches minus
\* the RainInches of the last message handled in that minute.
C10_MidnightRebaseline ==
    [][ \A m \in WindRainMeasurements, lag \in Lags :
          HandleWindRain(m, lag) =>
             IF Hour(now) = 0 /\ Minute(now) = 0
             THEN /\ LastRainFall' = m.RainInches
                  /\ hmsg'.Data.dailyrainin = 0
             ELSE midnightRain # {} =>
                     hmsg'.Data.dailyrainin = Fmt2(m.RainInches - Deref(midnightRain)) ]_vars

\* two messages with different RainInches were handled at 00:00, each
\* reporting 0, the second one leaving its RainInches as the baseline
C10_Witness ==
    /\ Hour(now) = 0 /\ Minute(now) = 0
    /\ lastTH = EmptyMap
    /\ data.Timestamp = {now}
    /\ data.Data.dailyrainin = 0
    /\ data.Data.wind_dir = Fmt2(157500)
    /\ hpc = "send"
    /\ hmsg.Timestamp = {now}
    /\ "dailyrainin" \in DOMAIN hmsg.Data
    /\ hmsg.Data.dailyrainin = 0
    /\ LastRainFall = 5300
    /\ midnightRain = {5300}

\* C11: the baseline is re-zeroed once per local day: the first wind/rain
\* message handled since midnight becomes the baseline and reports 0, the
\* later ones of that day leave the baseline alone.
C11_ResetOncePerDay ==
    [][ \A m \in WindRainMeasurements, lag \in Lags :
          HandleWindRain(m, lag) =>
             IF ~wrToday
             THEN /\ LastRainFall' = m.RainInches
                  /\ hmsg'.Data.dailyrainin = 0
             ELSE LastRainFall' = LastRainFall ]_vars

EstablishesBaseline == LastRainFall < 0 \/ (Hour(now) = 0 /\ Minute(now) = 0)

\* C12: as long as no reading since the baseline was taken is below its
\* predecessor, the reported delta is never negative, never below the delta
\* reported before, 0 for the reading that sets the baseline, and the
\* baseline is at most the reading.
C12_DeltaMonotone ==
    [][ \A m \in WindRainMeasurements, lag \in Lags :
          (HandleWindRain(m, lag) /\ nondecr') =>
             /\ hmsg'.Data.dailyrainin >= 0
             /\ LastRainFall' >= 0
             /\ LastRainFall' <= m.RainInches
             /\ IF EstablishesBaseline
                THEN hmsg'.Data.dailyrainin = 0
                ELSE hmsg'.Data.dailyrainin >= Fmt2(Deref(lastReading) - LastRainFall) ]_vars

\* 5.00 set the baseline and was merged with delta 0; 5.30 then reported 0.30
C12_Witness ==
    /\ nondecr
    /\ lastReading = {5300}
    /\ LastRainFall = 5000
    /\ hpc = "send"
    /\ "dailyrainin" \in DOMAIN hmsg.Data
    /\ hmsg.Data.dailyrainin = 30
    /\ lastWR # EmptyMap
    /\ lastWR.dailyrainin = 0

\* C13: once main has left the loop through the signal case nothing is
\* received from the channel, nothing is merged and nothing is submitted.
C13_StoppedIsFinal ==
    [][ sched = "stopped" =>
          /\ sched' = "stopped"
          /\ data' = data
          /\ hpc' = hpc
          /\ hmsg' = hmsg
          /\ lastMsg' = lastMsg ]_vars

\* stopped with a message waiting in the channel send and a tick due
C13_Witness ==
    /\ sched = "stopped"
    /\ hpc = "send"
    /\ TimerReady
    /\ data.Timestamp # {}

\* C14: with the signal pending, main starts no further receive or timer
\* iteration: its next step from the select is the stop.
C14_StopsAtNextIteration ==
    [][ (sig /\ sched = "select") =>
          (data' = data /\ timer' = timer /\ sched' \in {"select", "stopped"}) ]_vars

\* C14 as amended: a pending signal stays pending until main takes the signal
\* case, and taking it stops the loop; when neither a message nor a tick is
\* ready the only step main can take from the select is that stop.
C14_SignalKeptUntilTaken ==
    [][ /\ sig => (sig' \/ (sched = "select" /\ sched' = "stopped"))
        /\ (sig /\ sched = "select" /\ hpc # "send" /\ ~TimerReady) =>
              /\ data' = data
              /\ timer' = timer
              /\ sched' \in {"select", "stopped"}
              /\ sched' = "stopped" => ~sig' ]_vars

\* the signal is pending at the select while a message and a tick are ready
C14_Witness ==
    /\ sig
    /\ sched = "select"
    /\ hpc = "send"
    /\ TimerReady
    /\ data.Timestamp # {}

\* C15: a tick skipped as stale leaves data (values and timestamp) and the
\* rain baseline as they were.
C15_StaleSkipChangesNothing ==
    [][ (TimerTick /\ data.Timestamp # {}
           /\ now - Deref(data.Timestamp) > MaxAgeMinutes) =>
          /\ data' = data
          /\ LastRainFall' = LastRainFall
          /\ hmsg' = hmsg ]_vars

\* after a stale skip data still holds both kinds of values
C15_Witness ==
    /\ logged = "stale"
    /\ timer = {}
    /\ sched = "select"
    /\ lastTH # EmptyMap
    /\ lastWR # EmptyMap
    /\ data.Data = MergeData(lastTH, lastWR)
    /\ LastRainFall >= 0
    /\ now - Deref(data.Timestamp) > MaxAgeMinutes

\* C16: the return of a failed submitMeasurement leaves data and the rain
\* baseline as they were and goes back to the select; data does not change
\* while submitMeasurement runs, and submitMeasurement is only entered from
\* a timer tick.
C16_FailedSubmitChangesNothing ==
    [][ /\ (sched = "submit" /\ logged # "err" /\ logged' = "err") =>
              /\ sched' = "select"
              /\ data' = data
              /\ LastRainFall' = LastRainFall
        /\ sched = "submit" => data' = data
        /\ (sched # "submit" /\ sched' = "submit") => TimerTick ]_vars

\* a submit has failed; data still holds both kinds of values
C16_Witness ==
    /\ logged = "err"
    /\ sched = "select"
    /\ lastTH # EmptyMap
    /\ lastWR # EmptyMap
    /\ data.Data = MergeData(lastTH, lastWR)
    /\ LastRainFall >= 0

\* C17: a tick with a timestamp submits exactly when the age is at most
\* 5 minutes and is skipped as stale exactly when the age exceeds 5 minutes.
C17_StrictlyOlderIsStale ==
    [][ (TimerTick /\ data.Timestamp # {}) =>
          LET age == now - Deref(data.Timestamp)
          IN  /\ (sched' = "submit") <=> (age <= MaxAgeMinutes)
              /\ (sched' = "select" /\ logged' = "stale") <=> (age > MaxAgeMinutes) ]_vars

\* submitMeasurement runs for data that was exactly 5 minutes old at the tick
C17_Witness ==
    /\ sched = "submit"
    /\ d = {MaxAgeMinutes}

\* C18: no field of currentConditions is changed by both setters.
C18_DisjointFields ==
    writtenBy[TEMP_HUMIDITY_MESSAGE] \cap writtenBy[WIND_RAIN_MESSAGE] = {}

\* C18 as amended: the only fields changed by both setters are Timestamp and
\* Battery; Temp and Humidity are changed by SetTempHumidityConditions only,
\* WindSpeed, WindDirection and RainInches by SetWindRainConditions only.
C18_SharedTimestampBattery ==
    /\ writtenBy[TEMP_HUMIDITY_MESSAGE] \cap writtenBy[WIND_RAIN_MESSAGE]
          \subseteq {"Timestamp", "Battery"}
    /\ writtenBy[TEMP_HUMIDITY_MESSAGE] \subseteq {"Timestamp", "Battery", "Temp", "Humidity"}
    /\ writtenBy[WIND_RAIN_MESSAGE]
          \subseteq {"Timestamp", "Battery", "WindSpeed", "WindDirection", "RainInches"}

\* both setters have changed every field they assign
C18_Witness ==
    /\ writtenBy[TEMP_HUMIDITY_MESSAGE] = {"Timestamp", "Battery", "Temp", "Humidity"}
    /\ writtenBy[WIND_RAIN_MESSAGE]
          = {"Timestamp", "Battery", "WindSpeed", "WindDirection", "RainInches"}

HasZero(k) == k \in DOMAIN data.Data /\ data.Data[k] = 0

\* C19: before a wind/rain message was handled the baseline is invalid, and
\* as long as a kind of message has not been merged data holds zero for its
\* parameters.
C19_ZeroBeforeFirstEvent ==
    /\ lastReading = {} => LastRainFall < 0
    /\ lastTH = EmptyMap => (HasZero("tempf") /\ HasZero("humidity"))
    /\ lastWR = EmptyMap =>
          (HasZero("windspeedmph") /\ HasZero("wind_dir") /\ HasZero("dailyrainin"))

\* C19 as amended: before a wind/rain message was handled the baseline is
\* invalid, and as long as a kind of message has not been merged data has no
\* entry for its parameters.
C19_AbsentBeforeFirstEvent ==
    /\ lastReading = {} => LastRainFall < 0
    /\ lastTH = EmptyMap => {"tempf", "humidity"} \cap DOMAIN data.Data = {}
    /\ lastWR = EmptyMap =>
          {"windspeedmph", "wind_dir", "dailyrainin"} \cap DOMAIN data.Data = {}

\* submitMeasurement runs before any wind/rain message was merged
C19_Witness ==
    /\ sched = "submit"
    /\ lastWR = EmptyMap
    /\ DOMAIN data.Data = {"tempf", "humidity"}

\* C20: once the signal is pending main reaches the stop, a running
\* submitMeasurement returning first.
C20_SignalLeadsToStopped ==
    sig ~> (sched = "stopped")


\* C21: submitMeasurement is entered only by a timer tick, which takes the
\* timer; while it runs the timer stays unarmed, so no tick is taken and no
\* second call is made; the timer is armed again only by the step in which
\* the call of the current tick returns.
C21_OneSubmitPerTick ==
    [][ /\ (sched # "submit" /\ sched' = "submit") =>
              (sched = "select" /\ timer # {} /\ now >= Deref(timer) /\ timer' = {})
        /\ sched = "submit" =>
              /\ timer = {}
              /\ sched' \in {"submit", "select"}
        /\ (timer' # {} /\ timer' # timer) =>
              (sched = "submit" /\ sched' = "select" /\ logged' = "resp") ]_vars

\* the second submitMeasurement runs, after the first one returned and armed
\* the timer again, and has been running for more than the timer interval
C21_Witness ==
    /\ sched = "submit"
    /\ logged = "resp"
    /\ timer = {}
    /\ now - Deref(data.Timestamp) > Deref(d) + TimerInterval


\* C22: the handler waits only in the channel send, and a message it hands
\* to the channel while main runs is eventually received and merged, unless
\* main stops first and leaves the handler in the send, the baseline already
\* moved by that message.
C22_SubmittedEventuallyApplied ==
    (hpc = "send" /\ Running) ~> (hpc = "idle" \/ sched = "stopped")


\* the payload cannot be decoded into the struct of its message type
FailsDecoding(p) ==
    \/ p.json = "syntax"
    \/ p.message_type = WIND_RAIN_MESSAGE /\ UnmarshalWindRainFails(p)
    \/ p.message_type = TEMP_HUMIDITY_MESSAGE /\ UnmarshalTempHumidityFails(p)

UnparseableTime(p) == p.time \in BadTimestamps

UnknownType(p) == p.message_type \notin {WIND_RAIN_MESSAGE, TEMP_HUMIDITY_MESSAGE}

\* the handler of pws_publisher returned without a channel send
PublisherDropped ==
    /\ hpc' = "idle"
    /\ hmsg' = hmsg
    /\ data' = data
    /\ LastRainFall' = LastRainFall

\* the handler of the proxy returned without calling a setter
ProxyDropped ==
    /\ wpc' = 0
    /\ measurement' = measurement
    /\ currentConditions' = currentConditions

\* C23: a message that fails JSON decoding, has an unparseable timestamp or
\* an unknown message type is dropped by the handler, in pws_publisher and
\* in the proxy: nothing is sent on the channel, no setter is called, data,
\* currentConditions and the rain baseline stay as they were.
C23_MalformedDropped ==
    [][ \A p \in Payloads :
          (FailsDecoding(p) \/ UnparseableTime(p) \/ UnknownType(p)) =>
             /\ PublisherHandle(p) => PublisherDropped
             /\ ProxyHandle(p) => ProxyDropped ]_vars

\* C23 as amended: pws_publisher drops a message that fails JSON decoding,
\* has an unparseable timestamp or an unknown message type; the proxy drops
\* a message that fails JSON decoding or has an unknown message type, but
\* does not parse the timestamp: a message whose only defect is its
\* timestamp is handed to a setter with the timestamp string as it came.
C23_DroppedBeforeHandOff ==
    [][ \A p \in Payloads :
          /\ (FailsDecoding(p) \/ UnparseableTime(p) \/ UnknownType(p)) =>
                (PublisherHandle(p) => PublisherDropped)
          /\ (FailsDecoding(p) \/ UnknownType(p)) =>
                (ProxyHandle(p) => ProxyDropped)
          /\ (UnparseableTime(p) /\ ~FailsDecoding(p) /\ ~UnknownType(p)
                /\ p.json = "ok") =>
                (ProxyHandle(p) => (wpc' = 1 /\ measurement'.Timestamp = p.time)) ]_vars

\* pws_publisher has dropped a message for its timestamp after a wind/rain
\* message set the baseline and was merged
C23_Witness ==
    /\ hlog = "timestamp"
    /\ hpc = "idle"
    /\ LastRainFall = 5000
    /\ lastWR # EmptyMap
    /\ data.Timestamp # {}

====
